---- MODULE Spec2Model ----
(***************************************************************************)
(* goply: reconciliation of a declared set of cluster resources.          *)
(*                                                                         *)
(* The model follows Reconciler.Reconcile / Reconciler.Delete of           *)
(* reconciler.go and Inventory.ItemsToRemove of inventory.go.  The         *)
(* resource manager (ssa.ResourceManager) and the decoder                  *)
(* (ssautils.ReadObjects, normalize.UnstructuredList) are the external     *)
(* collaborators: each manager call is one step whose outcome (success or  *)
(* error) is chosen nondeterministically, and the verdict of the decoder   *)
(* is part of the input text.                                              *)
(***************************************************************************)
EXTENDS Naturals, Sequences, FiniteSets

VARIABLES
    pc,          \* position of the running call
    entry,       \* the entry point that was called: "none", "Reconcile", "Delete"
    yaml,        \* the declaration text handed to the call
    opts,        \* ApplyOpts / DeleteOpts as seen by the running code
    prev,        \* previousInventory (a pointer: nil or an inventory)
    stageOne,    \* stage-one objects of the call
    stageTwo,    \* stage-two objects of the call
    inventory,   \* the inventory Reconcile builds
    items,       \* the objects handed to Reconciler.delete
    ops,         \* the manager operations invoked by the call, in order
    retErr,      \* the error returned by the call ("nil" for none)
    retInv,      \* the Inventory returned by Reconcile
    cluster,     \* identities applied and not deleted through the manager
    cycles,      \* number of calls started
    lastInv,     \* inventory returned by the last successful Reconcile (nil if none)
    allOk,       \* every call so far returned without error
    callerOpts,  \* the options as the caller passed them
    retry,       \* the call repeats the failed Reconcile before it (same text, same inventory)
    spent        \* number of objects declared by the calls so far

vars == <<pc, entry, yaml, opts, prev, stageOne, stageTwo, inventory, items,
          ops, retErr, retInv, cluster, cycles, lastInv, allOk, callerOpts, retry,
          spent>>

-----------------------------------------------------------------------------
(* Bounds of the model *)

\* objects of the declaration plus items of the previous inventory, per call
MaxObjects == 3
\* calls in a sequence of reconciliation cycles
MaxCycles == 3
\* objects declared, in all, by a sequence of reconciliation cycles
MaxDeclared == 3
\* the wait timeout (seconds) a caller supplies when it supplies one
CallerTimeout == 60

-----------------------------------------------------------------------------
(* Program constants, in seconds *)

DefaultTimeout == 300
WaitInterval == 2
StageOneTimeout == 30

-----------------------------------------------------------------------------
(* Declared objects.  An object is its group, kind, version, namespace and *)
(* name; the name is a sequence of characters, the other fields are        *)
(* strings.                                                                *)

RbacGroup == "rbac.authorization.k8s.io"

Namespace1 ==
    [group |-> "", kind |-> "Namespace", version |-> "v1",
     namespace |-> "", name |-> <<"n">>]
Hpa1 ==
    [group |-> "autoscaling", kind |-> "HorizontalPodAutoscaler", version |-> "v1",
     namespace |-> "n", name |-> <<"h">>]
Hpa2 ==
    [group |-> "autoscaling", kind |-> "HorizontalPodAutoscaler", version |-> "v2",
     namespace |-> "n", name |-> <<"h">>]
RoleColon ==
    [group |-> RbacGroup, kind |-> "ClusterRole", version |-> "v1",
     namespace |-> "", name |-> <<"a", ":">>]
RoleUnder ==
    [group |-> RbacGroup, kind |-> "ClusterRole", version |-> "v1",
     namespace |-> "", name |-> <<"a", "_", "_">>]

Crd1 ==
    [group |-> "apiextensions.k8s.io", kind |-> "CustomResourceDefinition",
     version |-> "v1", namespace |-> "", name |-> <<"c">>]

Objects == {Namespace1, Hpa1, Hpa2, RoleColon, RoleUnder}

RECURSIVE SeqsUpTo(_, _)
SeqsUpTo(S, n) ==
    IF n = 0 THEN {<<>>}
    ELSE LET shorter == SeqsUpTo(S, n - 1)
         IN  shorter \cup {Append(s, x) : s \in shorter, x \in S}

Range(s) == {s[k] : k \in 1..Len(s)}

MapSeq(f(_), s) == [k \in 1..Len(s) |-> f(s[k])]

\* (group, kind, namespace, name): the identity of a resource
Identity(o) == <<o.group, o.kind, o.namespace, o.name>>

-----------------------------------------------------------------------------
(* inventory.go *)

\* object.ObjMetadata.String() writes ":" of the name of an RBAC object as "__"
RBACGroupKind ==
    {<<RbacGroup, "Role">>, <<RbacGroup, "ClusterRole">>,
     <<RbacGroup, "RoleBinding">>, <<RbacGroup, "ClusterRoleBinding">>}

RECURSIVE NameString(_, _)
NameString(name, rbac) ==
    IF name = <<>> THEN ""
    ELSE (IF rbac /\ Head(name) = ":" THEN "__" ELSE Head(name))
         \o NameString(Tail(name), rbac)

\* object.ObjMetadata of an object
UnstructuredToObjMetadata(obj) ==
    [Namespace |-> obj.namespace, Name |-> obj.name,
     Group |-> obj.group, Kind |-> obj.kind]

\* object.ObjMetadata.String(): namespace_name_group_kind
ObjMetadataString(m) ==
    m.Namespace \o "_" \o NameString(m.Name, <<m.Group, m.Kind>> \in RBACGroupKind)
        \o "_" \o m.Group \o "_" \o m.Kind

\* toInventoryItem, were the name left out of the item
toInventoryItemNameless(obj) ==
    [ObjMetadata |-> [UnstructuredToObjMetadata(obj) EXCEPT !.Name = <<>>],
     GroupVersion |-> obj.version]

toInventoryItem(obj) ==
    [ObjMetadata |-> UnstructuredToObjMetadata(obj), GroupVersion |-> obj.version]

\* ID, were the version part of it
IDWithVersion(i) == ObjMetadataString(i.ObjMetadata) \o "_" \o i.GroupVersion

ID(i) == ObjMetadataString(i.ObjMetadata)

\* the object ItemsToRemove builds for an item to delete
RemovalObject(i) ==
    [group |-> i.ObjMetadata.Group, kind |-> i.ObjMetadata.Kind,
     version |-> i.GroupVersion,
     namespace |-> i.ObjMetadata.Namespace, name |-> i.ObjMetadata.Name]

ItemsToRemove(inv, newInv) ==
    LET newSet == {ID(newInv[k]) : k \in 1..Len(newInv)}
        keep(i) == ID(i) \notin newSet
    IN  MapSeq(RemovalObject, SelectSeq(inv, keep))

-----------------------------------------------------------------------------
(* reconciler.go: pure parts *)

ptr(x) == <<x>>

\* strings.ToLower on the kinds of the model
ToLower(kind) ==
    CASE kind = "Namespace" -> "namespace"
      [] kind = "CustomResourceDefinition" -> "customresourcedefinition"
      [] kind = "HorizontalPodAutoscaler" -> "horizontalpodautoscaler"
      [] kind = "ClusterRole" -> "clusterrole"
      [] OTHER -> kind

\* IsClusterDefinition, were only namespaces cluster definitions
IsClusterDefinitionNamespaceOnly(obj) ==
    ToLower(obj.kind) \in {"namespace"}

\* ssautils.IsClusterDefinition
IsClusterDefinition(obj) ==
    ToLower(obj.kind) \in {"customresourcedefinition", "namespace"}

\* GetObjects, were the decoder's error ignored
GetObjectsErrorIgnored(y) ==
    [objects |-> y.objects, err |-> FALSE]

\* GetObjects: the decoder's objects, or an error
GetObjects(y) ==
    IF y.fault = "decode"
    THEN [objects |-> <<>>, err |-> TRUE]
    ELSE [objects |-> y.objects, err |-> FALSE]

NotClusterDefinition(obj) == ~IsClusterDefinition(obj)

getResourceStages(y) ==
    LET got == GetObjects(y)
    IN  IF got.err \/ y.fault = "normalize"
        THEN [stageOne |-> <<>>, stageTwo |-> <<>>, err |-> TRUE]
        ELSE [stageOne |-> SelectSeq(got.objects, IsClusterDefinition),
              stageTwo |-> SelectSeq(got.objects, NotClusterDefinition),
              err |-> FALSE]

\* BuildInventory, were only the objects not yet applied recorded
BuildInventoryChangedOnly(one, two) ==
    LET new(obj) == Identity(obj) \notin cluster
    IN  MapSeq(toInventoryItem, SelectSeq(one, new))
            \o MapSeq(toInventoryItem, SelectSeq(two, new))

\* BuildInventory, were stage two appended first
BuildInventoryStageTwoFirst(one, two) ==
    MapSeq(toInventoryItem, two) \o MapSeq(toInventoryItem, one)

\* the inventory Reconcile builds from the two stages
BuildInventory(one, two) ==
    MapSeq(toInventoryItem, one) \o MapSeq(toInventoryItem, two)

-----------------------------------------------------------------------------
(* Inputs *)

NilInventory == [isNil |-> TRUE, Items |-> <<>>]
SomeInventory(its) == [isNil |-> FALSE, Items |-> its]

NoOpts == [WaitTimeout |-> <<>>, SkipWait |-> FALSE]

OptsSet == [WaitTimeout : {<<>>, ptr(CallerTimeout)}, SkipWait : BOOLEAN]

ObjectSeqs == SeqsUpTo(Objects, MaxObjects)

Yamls ==
    {[objects |-> s, fault |-> f] : s \in ObjectSeqs, f \in {"none", "decode", "normalize"}}

NoYaml == [objects |-> <<>>, fault |-> "none"]

\* previous inventories a caller may hold: built from objects, or none
PrevInventories(room) ==
    {NilInventory} \cup
    {SomeInventory(MapSeq(toInventoryItem, s)) : s \in SeqsUpTo(Objects, room)}

-----------------------------------------------------------------------------
(* The resource manager: a record of each invocation *)

\* site is the place of the call: "stageOne", "stageTwo" or "delete"
Op(name, site, objs, interval, timeout, ok) ==
    [op |-> name, site |-> site, objects |-> objs,
     interval |-> interval, timeout |-> timeout, ok |-> ok]

Identities(objs) == {Identity(objs[k]) : k \in 1..Len(objs)}

-----------------------------------------------------------------------------
Init ==
    /\ pc = "idle"
    /\ entry = "none"
    /\ yaml = NoYaml
    /\ opts = NoOpts
    /\ prev = NilInventory
    /\ stageOne = <<>>
    /\ stageTwo = <<>>
    /\ inventory = <<>>
    /\ items = <<>>
    /\ ops = <<>>
    /\ retErr = "nil"
    /\ retInv = <<>>
    /\ cluster = {}
    /\ cycles = 0
    /\ lastInv = NilInventory
    /\ allOk = TRUE
    /\ callerOpts = NoOpts
    /\ retry = FALSE
    /\ spent = 0

\* the call returns (inv, err)
Return(inv, err) ==
    /\ pc' = IF err = "nil" THEN "done" ELSE "failed"
    /\ retErr' = err
    /\ retInv' = inv
    /\ allOk' = (allOk /\ err = "nil")
    /\ lastInv' = IF err = "nil" /\ entry' = "Reconcile" THEN SomeInventory(inv) ELSE lastInv

\* Reconciler.Reconcile up to the first manager call (lines 133-155)
ReconcileEnter(y, o, p) ==
    LET st == getResourceStages(y)
    IN  /\ entry' = "Reconcile"
        /\ yaml' = y
        /\ callerOpts' = o
        /\ retry' = (pc = "failed" /\ entry = "Reconcile" /\ y = yaml /\ p = prev)
        /\ opts' = IF o.WaitTimeout = <<>>
                   THEN [o EXCEPT !.WaitTimeout = ptr(DefaultTimeout)]
                   ELSE o
        /\ prev' = p
        /\ ops' = <<>>
        /\ items' = <<>>
        /\ cycles' = cycles + 1
        /\ spent' = spent + Len(y.objects)
        /\ UNCHANGED cluster
        /\ stageOne' = st.stageOne
        /\ stageTwo' = st.stageTwo
        /\ IF st.err
           THEN /\ inventory' = <<>>
                /\ Return(<<>>, "error getting resource stages")
           ELSE /\ inventory' = BuildInventory(st.stageOne, st.stageTwo)
                /\ pc' = "applyOne"
                /\ retErr' = "nil"
                /\ retInv' = <<>>
                /\ UNCHANGED <<lastInv, allOk>>

\* a caller calls Reconcile (or Apply, when the previous inventory is nil)
Reconcile ==
    /\ pc = "idle"
    /\ \E y \in Yamls, o \in OptsSet :
         \E p \in PrevInventories(MaxObjects - Len(y.objects)) :
            ReconcileEnter(y, o, p)

\* a step of the running call leaves its inputs alone
SameCall ==
    UNCHANGED <<entry, yaml, prev, stageOne, stageTwo, inventory, cycles, callerOpts, retry,
                spent>>

\* ApplyStageOne, were the stage-one wait skipped under SkipWait
ApplyStageOneSkippingWait ==
    /\ pc = "applyOne"
    /\ SameCall
    /\ UNCHANGED <<opts, items>>
    /\ \/ /\ ops' = Append(ops, Op("ApplyAll", "stageOne", stageOne, 0, 0, TRUE))
          /\ cluster' = cluster \cup Identities(stageOne)
          /\ pc' = IF opts.SkipWait THEN "applyTwo" ELSE "waitOne"
          /\ UNCHANGED <<retErr, retInv, lastInv, allOk>>
       \/ /\ ops' = Append(ops, Op("ApplyAll", "stageOne", stageOne, 0, 0, FALSE))
          /\ \E applied \in SUBSET Identities(stageOne) : cluster' = cluster \cup applied
          /\ Return(<<>>, "error applying stage one resources")

\* mgr.ApplyAll of stage one (lines 157-161)
ApplyStageOne ==
    /\ pc = "applyOne"
    /\ SameCall
    /\ UNCHANGED <<opts, items>>
    /\ \/ /\ ops' = Append(ops, Op("ApplyAll", "stageOne", stageOne, 0, 0, TRUE))
          /\ cluster' = cluster \cup Identities(stageOne)
          /\ pc' = "waitOne"
          /\ UNCHANGED <<retErr, retInv, lastInv, allOk>>
       \/ /\ ops' = Append(ops, Op("ApplyAll", "stageOne", stageOne, 0, 0, FALSE))
          /\ \E applied \in SUBSET Identities(stageOne) : cluster' = cluster \cup applied
          /\ Return(<<>>, "error applying stage one resources")

\* WaitStageOne, were its error dropped
WaitStageOneErrorDropped ==
    /\ pc = "waitOne"
    /\ SameCall
    /\ UNCHANGED <<opts, items, cluster>>
    /\ \E ok \in BOOLEAN :
         ops' = Append(ops, Op("Wait", "stageOne", stageOne,
                               WaitInterval, StageOneTimeout, ok))
    /\ pc' = "applyTwo"
    /\ UNCHANGED <<retErr, retInv, lastInv, allOk>>

\* WaitStageOne, were it given the caller's timeout
WaitStageOneCallerTimeout ==
    /\ pc = "waitOne"
    /\ SameCall
    /\ UNCHANGED <<opts, items, cluster>>
    /\ \/ /\ ops' = Append(ops, Op("Wait", "stageOne", stageOne,
                                  WaitInterval, opts.WaitTimeout[1], TRUE))
          /\ pc' = "applyTwo"
          /\ UNCHANGED <<retErr, retInv, lastInv, allOk>>
       \/ /\ ops' = Append(ops, Op("Wait", "stageOne", stageOne,
                                  WaitInterval, opts.WaitTimeout[1], FALSE))
          /\ Return(<<>>, "timed out waiting for objects to reconcile")

\* WaitStageOne, were the stage-one apply tried again when the wait times out
WaitStageOneRetrying ==
    /\ pc = "waitOne"
    /\ SameCall
    /\ UNCHANGED <<opts, items, cluster, retErr, retInv, lastInv, allOk>>
    /\ \/ /\ ops' = Append(ops, Op("Wait", "stageOne", stageOne,
                                  WaitInterval, StageOneTimeout, TRUE))
          /\ pc' = "applyTwo"
       \/ /\ ops' = Append(ops, Op("Wait", "stageOne", stageOne,
                                  WaitInterval, StageOneTimeout, FALSE))
          /\ pc' = "applyOne"

\* mgr.Wait on stage one, never skipped (lines 163-172)
WaitStageOne ==
    /\ pc = "waitOne"
    /\ SameCall
    /\ UNCHANGED <<opts, items, cluster>>
    /\ \/ /\ ops' = Append(ops, Op("Wait", "stageOne", stageOne,
                                  WaitInterval, StageOneTimeout, TRUE))
          /\ pc' = "applyTwo"
          /\ UNCHANGED <<retErr, retInv, lastInv, allOk>>
       \/ /\ ops' = Append(ops, Op("Wait", "stageOne", stageOne,
                                  WaitInterval, StageOneTimeout, FALSE))
          /\ Return(<<>>, "timed out waiting for objects to reconcile")

\* ApplyStageTwo, were its error dropped
ApplyStageTwoErrorDropped ==
    /\ pc = "applyTwo"
    /\ SameCall
    /\ UNCHANGED <<opts, items>>
    /\ \/ /\ ops' = Append(ops, Op("ApplyAll", "stageTwo", stageTwo, 0, 0, TRUE))
          /\ cluster' = cluster \cup Identities(stageTwo)
       \/ /\ ops' = Append(ops, Op("ApplyAll", "stageTwo", stageTwo, 0, 0, FALSE))
          /\ \E applied \in SUBSET Identities(stageTwo) : cluster' = cluster \cup applied
    /\ pc' = IF opts.SkipWait THEN "prune" ELSE "waitTwo"
    /\ UNCHANGED <<retErr, retInv, lastInv, allOk>>

\* mgr.ApplyAll of stage two (lines 174-180)
ApplyStageTwo ==
    /\ pc = "applyTwo"
    /\ SameCall
    /\ UNCHANGED <<opts, items>>
    /\ \/ /\ ops' = Append(ops, Op("ApplyAll", "stageTwo", stageTwo, 0, 0, TRUE))
          /\ cluster' = cluster \cup Identities(stageTwo)
          /\ pc' = IF opts.SkipWait THEN "prune" ELSE "waitTwo"
          /\ UNCHANGED <<retErr, retInv, lastInv, allOk>>
       \/ /\ ops' = Append(ops, Op("ApplyAll", "stageTwo", stageTwo, 0, 0, FALSE))
          /\ \E applied \in SUBSET Identities(stageTwo) : cluster' = cluster \cup applied
          /\ Return(<<>>, "error applying stage two resources")

\* WaitStageTwo, were its error dropped
WaitStageTwoErrorDropped ==
    /\ pc = "waitTwo"
    /\ SameCall
    /\ UNCHANGED <<opts, items, cluster>>
    /\ \E ok \in BOOLEAN :
         ops' = Append(ops, Op("Wait", "stageTwo", stageTwo,
                               WaitInterval, opts.WaitTimeout[1], ok))
    /\ pc' = "prune"
    /\ UNCHANGED <<retErr, retInv, lastInv, allOk>>

\* mgr.Wait on stage two, unless SkipWait (lines 180-189)
WaitStageTwo ==
    /\ pc = "waitTwo"
    /\ SameCall
    /\ UNCHANGED <<opts, items, cluster>>
    /\ \/ /\ ops' = Append(ops, Op("Wait", "stageTwo", stageTwo,
                                  WaitInterval, opts.WaitTimeout[1], TRUE))
          /\ pc' = "prune"
          /\ UNCHANGED <<retErr, retInv, lastInv, allOk>>
       \/ /\ ops' = Append(ops, Op("Wait", "stageTwo", stageTwo,
                                  WaitInterval, opts.WaitTimeout[1], FALSE))
          /\ Return(<<>>, "timed out waiting for objects to reconcile")

\* RemoveItems, were nothing ever pruned
RemoveItemsNothing ==
    /\ pc = "prune"
    /\ SameCall
    /\ UNCHANGED <<opts, ops, cluster, items>>
    /\ Return(inventory, "nil")

\* pruning: Reconcile lines 191-197 and removeItems lines 200-208, up to delete
RemoveItems ==
    /\ pc = "prune"
    /\ SameCall
    /\ UNCHANGED <<opts, ops, cluster>>
    /\ LET toRemove == ItemsToRemove(prev.Items, inventory)
       IN  IF prev.isNil \/ Len(toRemove) = 0
           THEN /\ Return(inventory, "nil")
                /\ UNCHANGED items
           ELSE /\ items' = toRemove
                /\ pc' = "deleteAll"
                /\ UNCHANGED <<retErr, retInv, lastInv, allOk>>

\* the error Reconcile or Delete returns when Reconciler.delete returns one
DeleteError == IF entry = "Reconcile" THEN "error pruning items" ELSE "error during deletion"

\* DeleteAll, were its error dropped and the call to return as after success
DeleteAllErrorDropped ==
    /\ pc = "deleteAll"
    /\ SameCall
    /\ UNCHANGED items
    /\ opts' = IF opts.WaitTimeout = <<>>
               THEN [opts EXCEPT !.WaitTimeout = ptr(DefaultTimeout)]
               ELSE opts
    /\ \/ /\ ops' = Append(ops, Op("DeleteAll", "delete", items, 0, 0, TRUE))
          /\ cluster' = cluster \ Identities(items)
       \/ /\ ops' = Append(ops, Op("DeleteAll", "delete", items, 0, 0, FALSE))
          /\ \E deleted \in SUBSET Identities(items) : cluster' = cluster \ deleted
    /\ IF opts.SkipWait
       THEN Return(inventory, "nil")
       ELSE /\ pc' = "waitTermination"
            /\ UNCHANGED <<retErr, retInv, lastInv, allOk>>

\* Reconciler.delete: default timeout and mgr.DeleteAll (lines 210-219)
DeleteAll ==
    /\ pc = "deleteAll"
    /\ SameCall
    /\ UNCHANGED items
    /\ opts' = IF opts.WaitTimeout = <<>>
               THEN [opts EXCEPT !.WaitTimeout = ptr(DefaultTimeout)]
               ELSE opts
    /\ \/ /\ ops' = Append(ops, Op("DeleteAll", "delete", items, 0, 0, TRUE))
          /\ cluster' = cluster \ Identities(items)
          /\ IF opts.SkipWait
             THEN Return(inventory, "nil")
             ELSE /\ pc' = "waitTermination"
                  /\ UNCHANGED <<retErr, retInv, lastInv, allOk>>
       \/ /\ ops' = Append(ops, Op("DeleteAll", "delete", items, 0, 0, FALSE))
          /\ \E deleted \in SUBSET Identities(items) : cluster' = cluster \ deleted
          /\ Return(<<>>, DeleteError)

\* Reconciler.delete: mgr.WaitForTermination, its error dropped (lines 221-229)
WaitForTermination ==
    /\ pc = "waitTermination"
    /\ SameCall
    /\ UNCHANGED <<opts, items, cluster>>
    /\ \E ok \in BOOLEAN :
         ops' = Append(ops, Op("WaitForTermination", "delete", items,
                               WaitInterval, opts.WaitTimeout[1], ok))
    /\ Return(inventory, "nil")

\* Reconciler.Delete up to Reconciler.delete (lines 232-238)
DeleteEnter(y, o) ==
    LET got == GetObjects(y)
    IN  /\ entry' = "Delete"
        /\ yaml' = y
        /\ callerOpts' = o
        /\ retry' = FALSE
        /\ opts' = o
        /\ prev' = NilInventory
        /\ ops' = <<>>
        /\ stageOne' = <<>>
        /\ stageTwo' = <<>>
        /\ inventory' = <<>>
        /\ cycles' = cycles + 1
        /\ spent' = spent + Len(y.objects)
        /\ UNCHANGED cluster
        /\ IF got.err
           THEN /\ items' = <<>>
                /\ Return(<<>>, "error decoding yaml to unstructured")
           ELSE /\ items' = got.objects
                /\ pc' = "deleteAll"
                /\ retErr' = "nil"
                /\ retInv' = <<>>
                /\ UNCHANGED <<lastInv, allOk>>

\* a caller calls Delete
Delete ==
    /\ pc = "idle"
    /\ \E y \in Yamls, o \in OptsSet : DeleteEnter(y, o)

\* the declarations of a sequence of cycles: the decoder rejects some texts
CycleYamls ==
    {[objects |-> s, fault |-> "none"] : s \in SeqsUpTo(Objects, MaxDeclared - spent)}
    \cup {[objects |-> <<>>, fault |-> f] : f \in {"decode", "normalize"}}

\* a caller reconciles again, handing back the inventory of its last
\* successful Reconcile (none before the first success)
ReconcileCycle ==
    /\ pc \in {"idle", "done", "failed"}
    /\ cycles < MaxCycles
    /\ \E y \in CycleYamls, skip \in BOOLEAN :
         ReconcileEnter(y, [NoOpts EXCEPT !.SkipWait = skip], lastInv)

\* Inventory.ItemsToRemove applied to two inventories
Diff ==
    /\ pc = "idle"
    /\ \E a \in SeqsUpTo(Objects, MaxObjects) :
         \E b \in SeqsUpTo(Objects, MaxObjects - Len(a)) :
            /\ prev' = SomeInventory(MapSeq(toInventoryItem, a))
            /\ inventory' = MapSeq(toInventoryItem, b)
            /\ items' = ItemsToRemove(MapSeq(toInventoryItem, a), MapSeq(toInventoryItem, b))
    /\ pc' = "diffed"
    /\ UNCHANGED <<entry, yaml, opts, stageOne, stageTwo, ops, retErr, retInv,
                   cluster, cycles, lastInv, allOk, callerOpts, retry, spent>>

\* the objects given to the classifier: those of the calls and a type definition
ClassifierObjects == Objects \cup {Crd1}

\* getResourceStages applied to a declaration
Classify ==
    /\ pc = "idle"
    /\ \E s \in SeqsUpTo(ClassifierObjects, MaxObjects),
          f \in {"none", "decode", "normalize"} :
         LET y == [objects |-> s, fault |-> f]
             st == getResourceStages(y)
         IN  /\ yaml' = y
             /\ stageOne' = st.stageOne
             /\ stageTwo' = st.stageTwo
             /\ retErr' = IF st.err THEN "error getting resource stages" ELSE "nil"
    /\ pc' = "classified"
    /\ UNCHANGED <<entry, opts, prev, inventory, items, ops, retInv,
                   cluster, cycles, lastInv, allOk, callerOpts, retry, spent>>

\* a caller applies a declaration with no previous inventory
Apply ==
    /\ pc = "idle"
    /\ \E y \in Yamls, o \in OptsSet : ReconcileEnter(y, o, NilInventory)

\* the caller applies the same declaration a second time
ApplyAgain ==
    /\ pc \in {"done", "failed"}
    /\ cycles = 1
    /\ \E o \in OptsSet : ReconcileEnter(yaml, o, NilInventory)

Next ==
    \/ Reconcile
    \/ Delete
    \/ ApplyStageOne
    \/ WaitStageOne
    \/ ApplyStageTwo
    \/ WaitStageTwo
    \/ RemoveItems
    \/ DeleteAll
    \/ WaitForTermination

Spec == Init /\ [][Next]_vars

-----------------------------------------------------------------------------
(* Properties *)

Returned == pc \in {"done", "failed"}

\* positions in ops of the invocations of an operation at a call site
OpsAt(name, site) ==
    {k \in 1..Len(ops) : ops[k].op = name /\ ops[k].site = site}

SucceededBefore(name, site, k) ==
    \E i \in OpsAt(name, site) : i < k /\ ops[i].ok

\* the declared objects the classifier puts in stage one
DeclaredStageOne == SelectSeq(yaml.objects, IsClusterDefinition)

\* C1: in Reconcile the stage-two ApplyAll comes only after a successful
\* stage-one ApplyAll followed by a successful stage-one Wait, both on all
\* the cluster-definition objects of the declaration; when stage one fails no
\* stage-two ApplyAll is invoked and no stage-two object is applied.
StageTwoAfterStageOne ==
    entry = "Reconcile" =>
        /\ \A k \in OpsAt("ApplyAll", "stageTwo") :
             \E i \in OpsAt("ApplyAll", "stageOne"), j \in OpsAt("Wait", "stageOne") :
                /\ i < j /\ j < k
                /\ ops[i].ok /\ ops[j].ok
                /\ ops[i].objects = DeclaredStageOne
                /\ ops[j].objects = DeclaredStageOne
        /\ \A k \in 1..Len(ops) :
             (ops[k].op = "ApplyAll" /\ \E o \in Range(ops[k].objects) : ~IsClusterDefinition(o))
                => ops[k].site = "stageTwo"
        /\ (\E k \in 1..Len(ops) : ops[k].site = "stageOne" /\ ~ops[k].ok)
             => /\ OpsAt("ApplyAll", "stageTwo") = {}
                /\ cluster \subseteq Identities(DeclaredStageOne)

\* a Reconcile with objects in both stages has applied stage two
StageTwoApplied ==
    /\ entry = "Reconcile"
    /\ stageOne # <<>>
    /\ \E k \in OpsAt("ApplyAll", "stageTwo") : ops[k].objects # <<>> /\ ops[k].ok

\* C2: a call that performed a termination wait returns success only if that
\* wait succeeded; a termination wait that timed out is returned as an error.
TerminationWaitDecides ==
    Returned =>
        \A k \in OpsAt("WaitForTermination", "delete") : ~ops[k].ok => retErr # "nil"

\* C3: under SkipWait neither the stage-two Wait nor WaitForTermination is
\* invoked, by Reconcile or by Delete; the stage-one Wait follows every
\* successful stage-one ApplyAll whatever SkipWait is.
SkipWaitContract ==
    /\ opts.SkipWait =>
          /\ OpsAt("Wait", "stageTwo") = {}
          /\ OpsAt("WaitForTermination", "delete") = {}
    /\ (entry = "Reconcile" /\ pc # "waitOne" /\ Len(ops) >= 1 /\ ops[1].ok) =>
          /\ Len(ops) >= 2
          /\ ops[2].op = "Wait" /\ ops[2].site = "stageOne"
          /\ ops[2].objects = DeclaredStageOne

\* a Reconcile under SkipWait has pruned and returned
SkipWaitPruned ==
    /\ entry = "Reconcile"
    /\ opts.SkipWait
    /\ pc = "done"
    /\ OpsAt("DeleteAll", "delete") # {}

\* C6: in Reconcile DeleteAll comes only after both ApplyAll succeeded and,
\* unless SkipWait, the stage-two Wait succeeded; no ApplyAll and no convergence
\* Wait follows a DeleteAll.
PruneLast ==
    entry = "Reconcile" =>
        \A k \in OpsAt("DeleteAll", "delete") :
            /\ SucceededBefore("ApplyAll", "stageOne", k)
            /\ SucceededBefore("ApplyAll", "stageTwo", k)
            /\ ~opts.SkipWait => SucceededBefore("Wait", "stageTwo", k)
            /\ \A m \in 1..Len(ops) : m > k => ops[m].op \notin {"ApplyAll", "Wait"}

\* a Reconcile that waits has issued its DeleteAll
PrunedAfterWait ==
    /\ entry = "Reconcile"
    /\ ~opts.SkipWait
    /\ OpsAt("DeleteAll", "delete") # {}

\* C7: a Reconcile in which a phase failed (decoding, or any manager operation
\* of the apply, wait and prune phases) returns an error and an empty
\* Inventory; it returns no error only when no phase failed.
InventoryOnlyOnSuccess ==
    (entry = "Reconcile" /\ Returned) =>
        LET phaseFailed == yaml.fault # "none" \/ \E k \in 1..Len(ops) : ~ops[k].ok
        IN  /\ phaseFailed => (retErr # "nil" /\ retInv = <<>>)
            /\ retErr = "nil" => ~phaseFailed

\* (group, kind, namespace, name) of an inventory item
ItemIdentity(i) ==
    <<i.ObjMetadata.Group, i.ObjMetadata.Kind, i.ObjMetadata.Namespace, i.ObjMetadata.Name>>

ItemIdentities(its) == {ItemIdentity(its[k]) : k \in 1..Len(its)}

\* C4: A.ItemsToRemove(B) is, in A's order, the items of A whose identity
\* (group, kind, namespace, name) no item of B has: empty when A and B have the
\* same identities, all of A when B is empty, and never an identity of B.
DiffIsIdentityDifference ==
    pc = "diffed" =>
        LET A == prev.Items
            B == inventory
            absent(i) == ItemIdentity(i) \notin ItemIdentities(B)
            expected == SelectSeq(A, absent)
        IN  /\ Len(items) = Len(expected)
            /\ \A k \in 1..Len(items) : Identity(items[k]) = ItemIdentity(expected[k])
            /\ ItemIdentities(A) = ItemIdentities(B) => items = <<>>
            /\ B = <<>> => Len(items) = Len(A)
            /\ Identities(items) \cap ItemIdentities(B) = {}

\* the pruning step of a Reconcile is over (DeleteAll issued, or nothing to prune)
PruneDecided ==
    /\ entry = "Reconcile"
    /\ \/ pc \in {"waitTermination", "done"}
       \/ pc = "failed" /\ retErr = "error pruning items"

\* C5: once the apply phases of a Reconcile succeeded, exactly one DeleteAll
\* is issued, on exactly the identities of the previous inventory that are not
\* declared, when there are such; none is issued otherwise or without a previous
\* inventory; a successful call returns an inventory of the declared identities.
PruneExactly ==
    PruneDecided =>
        LET declared == Identities(yaml.objects)
            gone == ItemIdentities(prev.Items) \ declared
            deletes == OpsAt("DeleteAll", "delete")
        IN  /\ IF ~prev.isNil /\ gone # {}
               THEN /\ Cardinality(deletes) = 1
                    /\ \A k \in deletes : Identities(ops[k].objects) = gone
               ELSE deletes = {}
            /\ pc = "done" => ItemIdentities(retInv) = declared

\* no two items of an inventory share an identity
UniqueIdentities(its) ==
    \A j, k \in 1..Len(its) : ItemIdentity(its[j]) = ItemIdentity(its[k]) => j = k

\* no two declared objects share an identity
DeclaredOnce ==
    \A j, k \in 1..Len(yaml.objects) :
        Identity(yaml.objects[j]) = Identity(yaml.objects[k]) => j = k

\* C8 as stated: the Inventory of a successful Reconcile never holds two items
\* of the same (group, kind, namespace, name).
InventoryUnique ==
    (entry = "Reconcile" /\ pc = "done") => UniqueIdentities(retInv)

\* C8 as amended: the Inventory of a successful Reconcile holds no two items of
\* the same identity when the declaration declares no identity twice.
InventoryUniqueWhenDeclaredOnce ==
    (entry = "Reconcile" /\ pc = "done" /\ DeclaredOnce) => UniqueIdentities(retInv)

\* a successful Reconcile of two objects of different identities
TwoDeclaredOnceReturned ==
    /\ entry = "Reconcile"
    /\ pc = "done"
    /\ DeclaredOnce
    /\ Len(yaml.objects) >= 2
    /\ Len(retInv) >= 2

\* the place in the inventory of the i-th declared object: the stage-one objects
\* first, each stage in the order of the declaration
Place(D, i) ==
    LET ones(n) == Cardinality({k \in 1..n : IsClusterDefinition(D[k])})
        twos(n) == Cardinality({k \in 1..n : ~IsClusterDefinition(D[k])})
    IN  IF IsClusterDefinition(D[i]) THEN ones(i) ELSE ones(Len(D)) + twos(i)

\* C9: the Inventory of a successful Reconcile has one item per declared
\* object, with its identity and version, stage-one items first and the
\* declaration's order kept within each stage.
InventoryOfDeclaration ==
    (entry = "Reconcile" /\ pc = "done") =>
        LET D == yaml.objects
        IN  /\ Len(retInv) = Len(D)
            /\ \A i \in 1..Len(D) :
                 /\ ItemIdentity(retInv[Place(D, i)]) = Identity(D[i])
                 /\ retInv[Place(D, i)].GroupVersion = D[i].version

\* a successful Reconcile whose declaration names a stage-two object before a
\* stage-one object
MixedDeclarationReturned ==
    /\ entry = "Reconcile"
    /\ pc = "done"
    /\ \E i, j \in 1..Len(yaml.objects) :
         i < j /\ ~IsClusterDefinition(yaml.objects[i]) /\ IsClusterDefinition(yaml.objects[j])

\* C10: after every cycle of a sequence of successful Reconcile cycles, each
\* given the inventory the cycle before returned, the identities applied and not
\* deleted are those of the cycle's declaration.
ClusterIsDeclaration ==
    (entry = "Reconcile" /\ pc = "done" /\ allOk) => cluster = Identities(yaml.objects)

NextCycles ==
    \/ ReconcileCycle
    \/ ApplyStageOne
    \/ WaitStageOne
    \/ ApplyStageTwo
    \/ WaitStageTwo
    \/ RemoveItems
    \/ DeleteAll
    \/ WaitForTermination

\* sequences of Reconcile calls threaded through the returned inventory
SpecCycles == Init /\ [][NextCycles]_vars

\* ItemsToRemove on every pair of inventories
SpecDiff == Init /\ [][Diff]_vars

NextApplyTwice ==
    \/ Apply
    \/ ApplyAgain
    \/ ApplyStageOne
    \/ WaitStageOne
    \/ ApplyStageTwo
    \/ WaitStageTwo
    \/ RemoveItems

\* one declaration applied twice, each time without a previous inventory
SpecApplyTwice == Init /\ [][NextApplyTwice]_vars

\* C11: when a declaration is applied twice with no previous inventory and
\* both calls succeed, the second Inventory has the identities of the first and
\* the second call invokes no DeleteAll.
ApplyTwiceSameInventory ==
    [][(cycles = 2 /\ pc # "done" /\ pc' = "done" /\ ~lastInv.isNil) =>
          /\ ItemIdentities(retInv') = ItemIdentities(lastInv.Items)
          /\ \A k \in 1..Len(ops') : ops'[k].op # "DeleteAll"]_vars

\* the second Apply of a declaration of two objects has returned, as the first
AppliedTwice ==
    /\ cycles = 2
    /\ pc = "done"
    /\ allOk
    /\ Len(retInv) >= 2

\* the steps of a running call: each manager operation returns
Step ==
    \/ ApplyStageOne
    \/ WaitStageOne
    \/ ApplyStageTwo
    \/ WaitStageTwo
    \/ RemoveItems
    \/ DeleteAll
    \/ WaitForTermination

\* a call keeps running: every manager operation returns, every wait ends
SpecFair == Spec /\ WF_vars(Step)

\* the order of the phases of a call
Rank(p) ==
    CASE p = "idle" -> 0
      [] p = "applyOne" -> 1
      [] p = "waitOne" -> 2
      [] p = "applyTwo" -> 3
      [] p = "waitTwo" -> 4
      [] p = "prune" -> 5
      [] p = "deleteAll" -> 6
      [] p = "waitTermination" -> 7
      [] p \in {"done", "failed"} -> 8

\* C12: every Reconcile and Delete call reaches Done or Failed, given that
\* the manager operations return, and every step moves to a later phase: no
\* phase is entered again.
CallTerminates ==
    /\ (entry # "none") ~> Returned
    /\ [][Rank(pc') > Rank(pc)]_vars

\* a Reconcile that went through every phase has returned
AllPhasesReturned ==
    /\ entry = "Reconcile"
    /\ Returned
    /\ Len(ops) = 6

\* the call sites of the manager operations of a Reconcile
ReconcileSites ==
    {<<"ApplyAll", "stageOne">>, <<"Wait", "stageOne">>,
     <<"ApplyAll", "stageTwo">>, <<"Wait", "stageTwo">>,
     <<"DeleteAll", "delete">>, <<"WaitForTermination", "delete">>}

\* C13: in a Reconcile a manager operation that failed is the last one invoked
\* (an ApplyAll error, a Wait timeout and a DeleteAll error end the call as
\* failed), every ApplyAll that succeeded is still applied, and each of
\* ApplyAll per stage, Wait per stage and DeleteAll is invoked at most once.
FailureStopsReconcile ==
    entry = "Reconcile" =>
        /\ \A k \in 1..Len(ops) :
             ~ops[k].ok =>
                 /\ k = Len(ops)
                 /\ ops[k].op \in {"ApplyAll", "Wait", "DeleteAll"} => pc = "failed"
        /\ \A k \in 1..Len(ops) :
             (ops[k].op = "ApplyAll" /\ ops[k].ok) =>
                 Identities(ops[k].objects) \subseteq cluster
        /\ \A k \in 1..Len(ops) : <<ops[k].op, ops[k].site>> \in ReconcileSites
        /\ \A c \in ReconcileSites : Cardinality(OpsAt(c[1], c[2])) <= 1

\* a Reconcile failed at the stage-two ApplyAll, stage one still applied
StageTwoApplyFailed ==
    /\ entry = "Reconcile"
    /\ pc = "failed"
    /\ Len(ops) = 3
    /\ ~ops[3].ok
    /\ stageOne # <<>>
    /\ Identities(stageOne) \subseteq cluster

\* C14: when the DeleteAll of the prune fails, Reconcile returns the pruning
\* error and no inventory, though both ApplyAll succeeded and every declared
\* object remains applied.
PruneFailureKeepsApplied ==
    (/\ entry = "Reconcile"
     /\ \E k \in OpsAt("DeleteAll", "delete") : ~ops[k].ok) =>
        /\ pc = "failed"
        /\ retErr = "error pruning items"
        /\ retInv = <<>>
        /\ \E k \in OpsAt("ApplyAll", "stageOne") : ops[k].ok
        /\ \E k \in OpsAt("ApplyAll", "stageTwo") : ops[k].ok
        /\ Identities(yaml.objects) \subseteq cluster

\* a Reconcile of objects of both stages whose prune failed
PruneFailed ==
    /\ entry = "Reconcile"
    /\ pc = "failed"
    /\ \E k \in OpsAt("DeleteAll", "delete") : ~ops[k].ok
    /\ stageOne # <<>>
    /\ stageTwo # <<>>

\* getResourceStages on every declaration
SpecStages == Init /\ [][Classify]_vars

\* the kinds of a namespace and of a type definition
ClusterDefinitionKinds == {"Namespace", "CustomResourceDefinition"}

\* the stage of the i-th declared object and its position in that stage
StagePlace(D, i) ==
    LET one == D[i].kind \in ClusterDefinitionKinds
    IN  [one |-> one,
         at |-> Cardinality({j \in 1..i :
                               (D[j].kind \in ClusterDefinitionKinds) = one})]

\* C15: the classifier partitions the declared list: every declared object is
\* in exactly one stage, stage one holds exactly the namespaces and type
\* definitions, and each stage keeps the declared relative order.
StagesPartition ==
    (pc = "classified" /\ retErr = "nil") =>
        /\ Len(stageOne) + Len(stageTwo) = Len(yaml.objects)
        /\ \A i \in 1..Len(yaml.objects) :
             LET at == StagePlace(yaml.objects, i)
             IN  IF at.one
                 THEN at.at <= Len(stageOne) /\ stageOne[at.at] = yaml.objects[i]
                 ELSE at.at <= Len(stageTwo) /\ stageTwo[at.at] = yaml.objects[i]

\* a type definition and a namespace declared around another object
MixedClassified ==
    /\ pc = "classified"
    /\ Len(yaml.objects) = 3
    /\ yaml.objects[1].kind = "CustomResourceDefinition"
    /\ yaml.objects[3].kind = "Namespace"
    /\ Len(stageOne) = 2
    /\ Len(stageTwo) = 1

\* C16: when the declaration cannot be decoded, Reconcile and Delete return an
\* error without invoking any manager operation, and the classifier returns
\* no stage contents.
DecodeFailureTouchesNothing ==
    (entry \in {"Reconcile", "Delete"} /\ yaml.fault = "decode") =>
        /\ pc = "failed"
        /\ retErr # "nil"
        /\ retInv = <<>>
        /\ ops = <<>>
        /\ cluster = {}
        /\ stageOne = <<>>
        /\ stageTwo = <<>>

\* a Reconcile of an undecodable text of several objects, with an inventory
DecodeFailed ==
    /\ entry = "Reconcile"
    /\ yaml.fault = "decode"
    /\ Len(yaml.objects) >= 2
    /\ ~prev.isNil
    /\ pc = "failed"

\* the timeout, in seconds, the caller's options ask for: five minutes if none
AskedTimeout ==
    IF callerOpts.WaitTimeout = <<>> THEN 5 * 60 ELSE callerOpts.WaitTimeout[1]

\* C17: the stage-one Wait always polls every 2 seconds for 30 seconds; the
\* stage-two Wait and the termination wait poll every 2 seconds for the
\* caller's timeout, or five minutes when the caller gave none; so the prune's
\* termination wait has the timeout of the stage-two Wait of the same call.
WaitTimeouts ==
    /\ \A k \in OpsAt("Wait", "stageOne") :
         ops[k].interval = 2 /\ ops[k].timeout = 30
    /\ \A k \in OpsAt("Wait", "stageTwo") :
         ops[k].interval = 2 /\ ops[k].timeout = AskedTimeout
    /\ \A k \in OpsAt("WaitForTermination", "delete") :
         ops[k].interval = 2 /\ ops[k].timeout = AskedTimeout
    /\ \A i \in OpsAt("Wait", "stageTwo"), j \in OpsAt("WaitForTermination", "delete") :
         ops[i].timeout = ops[j].timeout

\* a Reconcile given a timeout by its caller has made all three waits
WaitedWithCallerTimeout ==
    /\ entry = "Reconcile"
    /\ callerOpts.WaitTimeout # <<>>
    /\ OpsAt("Wait", "stageOne") # {}
    /\ OpsAt("Wait", "stageTwo") # {}
    /\ OpsAt("WaitForTermination", "delete") # {}

\* C18: the version is no part of the identity the prune compares: an object
\* to delete never has the (group, kind, namespace, name) of a declared
\* object, whatever the versions, no DeleteAll of a Reconcile is given a
\* declared identity, and each object to delete carries the version its item
\* of the previous inventory recorded.
VersionNotCompared ==
    entry = "Reconcile" =>
        /\ Identities(items) \cap Identities(yaml.objects) = {}
        /\ Identities(items) \cap ItemIdentities(inventory) = {}
        /\ \A k \in OpsAt("DeleteAll", "delete") :
             Identities(ops[k].objects) \cap Identities(yaml.objects) = {}
        /\ \A k \in 1..Len(items) :
             \E j \in 1..Len(prev.Items) :
                /\ ItemIdentity(prev.Items[j]) = Identity(items[k])
                /\ prev.Items[j].GroupVersion = items[k].version

\* a prune deleted an object while an object declared at another version than
\* the previous inventory recorded was kept
OtherVersionKept ==
    /\ entry = "Reconcile"
    /\ \E k \in OpsAt("DeleteAll", "delete") : ops[k].ok /\ ops[k].objects # <<>>
    /\ \E i \in 1..Len(yaml.objects), j \in 1..Len(prev.Items) :
         /\ ItemIdentity(prev.Items[j]) = Identity(yaml.objects[i])
         /\ prev.Items[j].GroupVersion # yaml.objects[i].version

\* C19: when a Reconcile of a declaration D with the previous inventory P
\* fails and is called again with the same D and P and succeeds, the
\* inventory returned has the identities of D, every identity of D is applied
\* and no identity of P outside D is left in the cluster.
RetrySound ==
    (entry = "Reconcile" /\ pc = "done" /\ retry) =>
        LET D == Identities(yaml.objects)
            P == ItemIdentities(prev.Items)
        IN  /\ ItemIdentities(retInv) = D
            /\ D \subseteq cluster
            /\ (P \ D) \cap cluster = {}

\* C20, as stated: over cycles some of which failed, each given the inventory
\* of the latest successful cycle, after a successful cycle the resources
\* applied and not deleted are exactly the declared ones.
ClusterIsDeclarationAfterFailures ==
    (entry = "Reconcile" /\ pc = "done" /\ ~allOk) =>
        cluster = Identities(yaml.objects)

\* the resources of the supplied inventory a Reconcile has to delete: those no
\* longer declared, but for one whose ID is the ID of a declared resource
\* (two names of an RBAC object that differ only in ":" written "__")
Prunable ==
    LET declaredIDs == {ID(toInventoryItem(yaml.objects[k])) : k \in 1..Len(yaml.objects)}
        due == {j \in 1..Len(prev.Items) :
                  /\ ItemIdentity(prev.Items[j]) \notin Identities(yaml.objects)
                  /\ ID(prev.Items[j]) \notin declaredIDs}
    IN  {ItemIdentity(prev.Items[j]) : j \in due}

\* after a successful cycle the declared resources are applied and the
\* resources to delete are gone
DeclaredAppliedStaleDeleted ==
    (entry = "Reconcile" /\ pc = "done") =>
        /\ Identities(yaml.objects) \subseteq cluster
        /\ Prunable \cap cluster = {}

\* C20, amended: over cycles some of which failed, each given the inventory of
\* the latest successful cycle, after a successful cycle every declared
\* resource is applied and not deleted, and every resource of the supplied
\* inventory that is no longer declared has been deleted, unless its ID is
\* that of a declared resource; and no step of any cycle, failed or not,
\* deletes anything else: a resource applied during a failed cycle that is not
\* in the inventory the caller supplies stays behind until it is declared and
\* recorded again.
DeclaredAppliedAfterFailures ==
    /\ []DeclaredAppliedStaleDeleted
    /\ [][(cluster \ cluster') \subseteq Prunable]_vars

\* after a failed cycle a successful one pruned an object and left another,
\* applied by the failed cycle, in no inventory and no longer declared, behind
OrphanLeftBehind ==
    /\ entry = "Reconcile"
    /\ pc = "done"
    /\ ~allOk
    /\ yaml.objects # <<>>
    /\ \E k \in OpsAt("DeleteAll", "delete") : ops[k].ok /\ ops[k].objects # <<>>
    /\ \E x \in cluster :
         /\ x \notin Identities(yaml.objects)
         /\ x \notin ItemIdentities(prev.Items)

====
